---------------------------- MODULE Spec2Model ----------------------------
(***************************************************************************)
(* JZip: a single-file Huffman compressor.                                 *)
(*                                                                         *)
(* The repository holds two generations of the driver: src/src/main.cpp    *)
(* (bit-packed dictionary, chunked binary body) and src/unnamed/part_001   *)
(* (dictionary and body written as '0'/'1' characters, decoded again by    *)
(* Interpreter::decompress through a CharHeap).  Both are modelled.        *)
(*                                                                         *)
(* Bytes are the integers 0..255, bits the integers 0 and 1, a             *)
(* std::vector<bool> a sequence of bits, a std::map a function, a stream   *)
(* a sequence of bytes with a read position.  The symbols of the model     *)
(* are below 128, where signed and unsigned char order the same way.       *)
(***************************************************************************)
EXTENDS Integers, Sequences, FiniteSets, TLC

(***************************************************************************)
(* Bounds of the model                                                     *)
(***************************************************************************)
\* longest input string of src/src/main.cpp
MaxLen == 5
\* longest input string of src/unnamed/part_001
MaxText == 4
\* bytes of one body chunk (header byte included); the program uses 10000
ChunkBytes == 2

\* longest path of a code table that is drawn rather than built
MaxPath == 2
\* longest body handed to Interpreter::decompress on its own
MaxBody == 4
\* longest dictionary stream handed to a reader on its own
MaxStream == 7
\* turns decompress is followed for once its stream has failed
MaxPastEnd == 2

\* the bytes an input is made of: NUL, three control bytes and space
Symbols == {0, 1, 2, 3, 32}

\* the bytes std::ws skips: \t \n \v \f \r and space
Whitespace == {9, 10, 11, 12, 13, 32}

\* the values an uninitialised char may be found to hold: a symbol, or a
\* byte that is no symbol of any input
Indeterminate == Symbols \cup {255}

\* the values a char may be found to hold that is declared anew, without
\* a value, in every turn of a loop: what the turn before left, or another
Stale(prev) == {prev, 255}

(***************************************************************************)
(* Sequences                                                               *)
(***************************************************************************)
Range(s) == {s[i] : i \in DOMAIN s}

Front(s) == SubSeq(s, 1, Len(s) - 1)

SeqsUpTo(S, n) == UNION {[1..k -> S] : k \in 0..n}

IsPrefix(p, q) == Len(p) <= Len(q) /\ SubSeq(q, 1, Len(p)) = p

Pow2(n) == 2 ^ n

(***************************************************************************)
(* HuffmanTree                                                             *)
(***************************************************************************)
\* Node(char c, long long freq): a leaf has no children
LeafNode(ch, f) == [c |-> ch, freq |-> f]

\* Node(Node *pLChild, Node *pRChild): freq is the sum of the children's
BranchNode(l, r) == [freq |-> l.freq + r.freq, pLeft |-> l, pRight |-> r]

\* if (pLeft): am I a branch node?
IsBranch(n) == "pLeft" \in DOMAIN n

\* HuffmanTree::countChars: charMap[c]++ for every char of the input
countChars(in) ==
    [ch \in Range(in) |-> Cardinality({i \in DOMAIN in : in[i] = ch})]

\* a plausible slip: the comparison turned round (a max-queue)
CompareValueReversed(a, b) == a.freq < b.freq

\* HuffmanTree::CompareValue::operator(): a->freq > b->freq
CompareValue(a, b) == a.freq > b.freq

\* std::priority_queue::top(): an element no other element is ordered
\* after; which one among equal frequencies is left to the library
Tops(q) == {t \in q : \A e \in q : ~CompareValue(t, e)}

\* the state of a std::vector<bool> after pop_back() on an empty vector
\* (undefined behaviour: the finish iterator lies before the start)
Corrupt == <<-1>>

\* path.pop_back()
PopBack(p) == IF p = <<>> THEN Corrupt ELSE Front(p)

\* a plausible slip: the leaf does not pop the bit its parent pushed
RECURSIVE NodeGetKeysNoPop(_, _)
NodeGetKeysNoPop(n, path) ==
    IF IsBranch(n)
    THEN LET l == NodeGetKeysNoPop(n.pLeft, Append(path, 0))
             r == NodeGetKeysNoPop(n.pRight, Append(l.path, 1))
         IN  [map  |-> r.map @@ l.map,
              path |-> IF r.path # <<>> THEN PopBack(r.path) ELSE r.path]
    ELSE [map |-> (n.c :> path), path |-> path]

\* HuffmanTree::Node::getKeys, with the function-static path threaded
\* through the calls: the result is the map and the path left behind
RECURSIVE NodeGetKeys(_, _)
NodeGetKeys(n, path) ==
    IF IsBranch(n)
    THEN LET l == NodeGetKeys(n.pLeft, Append(path, 0))
             r == NodeGetKeys(n.pRight, Append(l.path, 1))
         IN  [map  |-> r.map @@ l.map,
              path |-> IF r.path # <<>> THEN PopBack(r.path) ELSE r.path]
    ELSE [map |-> (n.c :> path), path |-> PopBack(path)]

(***************************************************************************)
(* Bits, bytes and streams                                                 *)
(***************************************************************************)
Zeros(n) == [i \in 1..n |-> 0]

\* (b >> i) & 1 for i = 7 down to 0: the bits of a byte, highest first
ByteBits(b) == [i \in 1..8 |-> (b \div Pow2(8 - i)) % 2]

\* byte = (byte << 1) | bit over at most eight bits, in an unsigned char
RECURSIVE BitsValue(_)
BitsValue(bits) ==
    IF bits = <<>> THEN 0
    ELSE (2 * BitsValue(Front(bits)) + bits[Len(bits)]) % 256

\* the char a byte is, as the signed char of the build
SignedChar(b) == IF b >= 128 THEN b - 256 ELSE b

\* the keys of a std::map<char, ...> in iteration order
RECURSIVE CharOrder(_)
CharOrder(S) ==
    IF S = {} THEN <<>>
    ELSE LET m == CHOOSE x \in S : \A y \in S : SignedChar(x) <= SignedChar(y)
         IN  <<m>> \o CharOrder(S \ {m})

RECURSIVE Flatten(_)
Flatten(ss) == IF ss = <<>> THEN <<>> ELSE ss[1] \o Flatten(Tail(ss))

\* writeOut: eight bits to a byte, highest first; a last partial byte is
\* shifted up by the bits it lacks.  The result is the bytes written.
RECURSIVE writeOut(_)
writeOut(toWrite) ==
    IF toWrite = <<>> THEN <<>>
    ELSE IF Len(toWrite) >= 8
         THEN <<BitsValue(SubSeq(toWrite, 1, 8))>>
                  \o writeOut(SubSeq(toWrite, 9, Len(toWrite)))
         ELSE <<(BitsValue(toWrite) * Pow2(8 - Len(toWrite))) % 256>>

\* writeOutDict: the same packing (its second loop shifts a partial byte
\* up one bit at a time), and then outFile << '\0'
writeOutDict(binDict) == writeOut(binDict) \o <<0>>

\* vectorDict, one entry: the path length in 8 bits, the path, blank
\* bits to the next byte, the character in 8 bits
DictEntry(ch, p) ==
    ByteBits(Len(p) % 256)
        \o p
        \o (IF Len(p) % 8 # 0 THEN Zeros(8 - (Len(p) % 8)) ELSE <<>>)
        \o ByteBits(ch)

RECURSIVE DictEntries(_, _)
DictEntries(m, order) ==
    IF order = <<>> THEN <<>>
    ELSE DictEntry(order[1], m[order[1]]) \o DictEntries(m, Tail(order))

\* the longest path a length byte holds
MaxPathLength == 255

\* if (key.second.size() > 255) throw
PathTooLong(m) == \E ch \in DOMAIN m : Len(m[ch]) > MaxPathLength

\* vectorDict: the entries in key order, then eight 0 bits
vectorDict(m) == DictEntries(m, CharOrder(DOMAIN m)) \o Zeros(8)

\* in >> x for a char: skip whitespace, then take one byte.  The stream
\* is [pos, fail]: pos bytes are consumed; once fail is set every
\* extraction fails and leaves its variable alone.
RECURSIVE SkipWs(_, _)
SkipWs(in, pos) ==
    IF pos < Len(in) /\ in[pos + 1] \in Whitespace
    THEN SkipWs(in, pos + 1) ELSE pos

Extract(in, st) ==
    LET q == SkipWs(in, st.pos)
    IN  IF st.fail \/ q >= Len(in)
        THEN [ok |-> FALSE, ch |-> 0,
              st |-> [pos |-> IF st.fail THEN st.pos ELSE q, fail |-> TRUE]]
        ELSE [ok |-> TRUE, ch |-> in[q + 1],
              st |-> [pos |-> q + 1, fail |-> FALSE]]

\* interpretDict, the inner loop, its extractions: one byte is read into
\* bits for each i with i % 8 = 0.  The result lists what bits holds
\* during each group of eight turns, and the stream state at the end; a
\* failed extraction leaves bits as it was.
RECURSIVE ReadPathBytes(_, _, _, _, _)
ReadPathBytes(in, st, bits, n, held) ==
    IF n = 0 THEN [st |-> st, held |-> held]
    ELSE LET r == Extract(in, st)
         IN  ReadPathBytes(in, r.st, IF r.ok THEN r.ch ELSE bits, n - 1,
                           Append(held, IF r.ok THEN r.ch ELSE bits))

\* interpretDict, the inner loop for (i = 0; i < pathLength; i++): when
\* i % 8 = 0 a byte is read and nothing is pushed, else bit 7 - i % 8 of
\* bits is pushed.  The j-th bit pushed is that of turn i = 8*((j-1) div 7)
\* + ((j-1) mod 7) + 1.
ReadPath(in, st, gBits, pathLength) ==
    LET rd == ReadPathBytes(in, st, gBits, (pathLength + 7) \div 8, <<>>)
        pushed == pathLength - ((pathLength + 7) \div 8)
        Turn(j) == 8 * ((j - 1) \div 7) + ((j - 1) % 7) + 1
    IN  [st |-> rd.st,
         path |-> [j \in 1..pushed |->
                     (rd.held[(Turn(j) \div 8) + 1]
                         \div Pow2(7 - (Turn(j) % 8))) % 2]]

\* interpretDict from stream state st with returnMap m.  gBits and gChar
\* are what the uninitialised bits and c hold when their extraction
\* fails; used tells which of the two were read, stored lists the chars
\* of the assignments returnMap[c] = path in order.  It never throws:
\* the result is the map and the stream state.
RECURSIVE interpretDictFrom(_, _, _, _, _, _, _)
interpretDictFrom(in, st, m, gBits, gChar, used, stored) ==
    LET len == Extract(in, st)
    IN  IF ~len.ok \/ len.ch = 0
        THEN [map |-> m, st |-> len.st, used |-> used, stored |-> stored]
        ELSE LET pr == ReadPath(in, len.st, gBits, len.ch)
                 cr == Extract(in, pr.st)
                 ch == IF cr.ok THEN cr.ch ELSE gChar
             IN  interpretDictFrom(in, cr.st, (ch :> pr.path) @@ m,
                     gBits, gChar,
                     used \cup (IF Extract(in, len.st).ok THEN {} ELSE {"bits"})
                          \cup (IF cr.ok THEN {} ELSE {"c"}),
                     Append(stored, ch))

interpretDict(in, gBits, gChar) ==
    interpretDictFrom(in, [pos |-> 0, fail |-> FALSE], <<>>, gBits, gChar, {},
                      <<>>)

(***************************************************************************)
(* src/unnamed/part_001: dictionary and body as characters                 *)
(***************************************************************************)
\* out << bit for a bool: the character '0' or '1'
BitChar(b) == 48 + b

\* for (bit : path) out << bit
BitChars(p) == [i \in 1..Len(p) |-> BitChar(p[i])]

\* writeDict, one entry: the path length as a byte, one character per
\* bit, the character
RECURSIVE TextEntries(_, _)
TextEntries(m, order) ==
    IF order = <<>> THEN <<>>
    ELSE <<Len(m[order[1]]) % 256>> \o BitChars(m[order[1]]) \o <<order[1]>>
            \o TextEntries(m, Tail(order))

\* writeDict: the entries in key order, then '\0'
writeDict(m) == TextEntries(m, CharOrder(DOMAIN m)) \o <<0>>

\* compress of part_001: out << bit for every bit of every char's path
RECURSIVE compressText(_, _)
compressText(in, m) ==
    IF in = <<>> THEN <<>>
    ELSE BitChars(m[in[1]]) \o compressText(Tail(in), m)

\* in.get(): the next byte, or EOF (-1) with eof and fail set
Get(in, st) ==
    IF st.fail \/ st.pos >= Len(in)
    THEN [ch |-> -1, st |-> [pos |-> st.pos, fail |-> TRUE]]
    ELSE [ch |-> in[st.pos + 1], st |-> [pos |-> st.pos + 1, fail |-> FALSE]]

\* readDict, the path loop: if (in.eof()) throw; bool bit = in.get()
RECURSIVE ReadTextPath(_, _, _, _)
ReadTextPath(in, st, p, n) ==
    IF n = 0 THEN [st |-> st, path |-> p, eof |-> FALSE]
    ELSE IF st.fail THEN [st |-> st, path |-> p, eof |-> TRUE]
    ELSE LET g == Get(in, st)
         IN  ReadTextPath(in, g.st, Append(p, IF g.ch # 0 THEN 1 ELSE 0), n - 1)

\* if (charMap.find(c) != charMap.end()) throw
IsDuplicate(ch, m) == ch \in DOMAIN m

\* readDict from stream state st with map m: the map and the stream
\* state, or what it throws
RECURSIVE readDictFrom(_, _, _)
readDictFrom(in, st, m) ==
    IF st.fail THEN [throw |-> "Unexpected EOF", map |-> m, st |-> st]
    ELSE LET len == Get(in, st)
             pathLength == len.ch % 256
         IN  IF pathLength = 0 THEN [throw |-> "", map |-> m, st |-> len.st]
             ELSE LET pr == ReadTextPath(in, len.st, <<>>, pathLength)
                  IN  IF pr.eof \/ pr.st.fail
                      THEN [throw |-> "Unexpected EOF", map |-> m, st |-> pr.st]
                      ELSE LET cr == Get(in, pr.st)
                               ch == cr.ch % 256
                           IN  IF IsDuplicate(ch, m)
                               THEN [throw |-> "Duplicate character",
                                     map |-> m, st |-> cr.st]
                               ELSE readDictFrom(in, cr.st, (ch :> pr.path) @@ m)

readDict(in) == readDictFrom(in, [pos |-> 0, fail |-> FALSE], <<>>)

(***************************************************************************)
(* CharHeap                                                                *)
(***************************************************************************)
\* operator< of std::vector<bool>: lexicographic, a prefix first
LexLess(p, q) ==
    \E i \in 1..Len(q) :
        /\ i - 1 <= Len(p)
        /\ SubSeq(p, 1, i - 1) = SubSeq(q, 1, i - 1)
        /\ (i > Len(p) \/ p[i] < q[i])

\* the keys of a std::map<std::vector<bool>, char> in iteration order
RECURSIVE PathOrder(_)
PathOrder(S) ==
    IF S = {} THEN <<>>
    ELSE LET m == CHOOSE x \in S : \A y \in S \ {x} : LexLess(x, y)
         IN  <<m>> \o PathOrder(S \ {m})

\* paths longer than this go to the overflow map
MaxDepth == 13

\* index = index * 2 + (bit ? 2 : 1), from 0
RECURSIVE HeapIndex(_)
HeapIndex(key) ==
    IF key = <<>> THEN 0
    ELSE 2 * HeapIndex(Front(key)) + (IF key[Len(key)] = 1 THEN 2 ELSE 1)

\* for (pair : map) { if (pair.second != branchChar) break; branchChar++; }
RECURSIVE BranchChar(_, _, _)
BranchChar(map, order, b) ==
    IF order = <<>> THEN b
    ELSE IF SignedChar(map[order[1]]) # b THEN b
    ELSE BranchChar(map, Tail(order), (b + 1) % 256)

\* depth: the longest key, at most 13
HeapDepth(map) ==
    LET longest == IF DOMAIN map = {} THEN 0
                   ELSE CHOOSE n \in {Len(k) : k \in DOMAIN map} :
                            \A k \in DOMAIN map : Len(k) <= n
    IN  IF longest > MaxDepth THEN MaxDepth ELSE longest

\* size = pow(2, depth + 1) - 2
HeapSize(depth) == Pow2(depth + 1) - 2

\* CharHeap::CharHeap.  keys is the array as a function on the indices
\* that were stored to; every other slot below size holds branchChar.
\* outside lists the indices at or beyond size that a store went to:
\* the second copy of the file throws there, the first one writes.
CharHeap(map) ==
    LET depth == HeapDepth(map)
        short == {k \in DOMAIN map : Len(k) <= MaxDepth}
    IN  [depth       |-> depth,
         size        |-> HeapSize(depth),
         branchChar  |-> BranchChar(map, PathOrder(DOMAIN map), 0),
         keys        |-> [i \in {HeapIndex(k) : k \in short} |->
                            map[CHOOSE k \in short : HeapIndex(k) = i]],
         outside     |-> {i \in {HeapIndex(k) : k \in short} :
                            i >= HeapSize(depth)},
         overflowMap |-> [k \in DOMAIN map \ short |-> map[k]]]

\* std::nullopt, and an optional that holds a char
Nullopt == <<>>
Some(ch) == <<ch>>

\* keys[index] for an index the array has, or that a store went to
KeyAt(heap, index) ==
    IF index \in DOMAIN heap.keys THEN heap.keys[index] ELSE heap.branchChar

\* CharHeap::getChar reads outside the array and outside every store
ReadsOutside(heap, key) ==
    /\ Len(key) <= MaxDepth
    /\ HeapIndex(key) >= heap.size
    /\ HeapIndex(key) \notin DOMAIN heap.keys

\* CharHeap::getChar, for a key that does not read outside
getChar(heap, key) ==
    IF Len(key) > MaxDepth
    THEN IF key \in DOMAIN heap.overflowMap
         THEN Some(heap.overflowMap[key]) ELSE Nullopt
    ELSE IF SignedChar(KeyAt(heap, HeapIndex(key))) = heap.branchChar
         THEN Nullopt
         ELSE Some(KeyAt(heap, HeapIndex(key)))

\* what a char outside the array may be found to hold
IndeterminateSlot == {255}

\* what getChar may return: for a read outside the array, empty (the
\* char found there is branchChar) or the char found there
GetCharResults(heap, key) ==
    IF ReadsOutside(heap, key)
    THEN {Nullopt} \cup {Some(g) : g \in IndeterminateSlot}
    ELSE {getChar(heap, key)}

\* Interpreter::Interpreter: switchedMap[pair.second] = pair.first, in
\* key order, a later char replacing an earlier one with the same path
switchedMap(m) ==
    [k \in {m[ch] : ch \in DOMAIN m} |->
        CHOOSE ch \in DOMAIN m :
            /\ m[ch] = k
            /\ \A other \in DOMAIN m :
                   m[other] = k => SignedChar(other) <= SignedChar(ch)]

(***************************************************************************)
(* State                                                                   *)
(***************************************************************************)
VARIABLES
    pc,             \* where the driver stands
    input,          \* the slurped file
    nodeQueue,      \* HuffmanTree::HuffmanTree: the priority queue
    pRoot,          \* HuffmanTree::pRoot, <<>> while unset
    path,           \* the static path of Node::getKeys
    charMap,        \* main: the code table returned by getKeys
    dict,           \* main: the bits returned by vectorDict
    outFile,        \* the bytes written to the .jzip file so far
    chunks,         \* the bytes of each writeOut call of compress, in order
    compressedData, \* compress: the chunk being filled
    stringStream,   \* compress: [pos, fail] of the stream over the input
    c,              \* compress: the char last extracted
    newCharMap,     \* main: the table read back from the file
    inFile,         \* [pos, fail] of the stream the file is read through
    charHeap,       \* Interpreter::charHeap
    key,            \* Interpreter::decompress: the bits not yet resolved
    returnString,   \* Interpreter::decompress: the chars decoded so far
    pastEnd,        \* turns of decompress taken on a failed stream
    probe           \* the last getChar call from outside: [key, result]

treeVars == <<nodeQueue, pRoot, path>>
writeVars == <<dict, outFile, chunks, compressedData, stringStream, c>>
readVars == <<inFile, charHeap, key, returnString, pastEnd, probe>>
vars == <<pc, input, nodeQueue, pRoot, path, charMap, dict, outFile, chunks,
          compressedData, stringStream, c, newCharMap, inFile, charHeap, key,
          returnString, pastEnd, probe>>

NoMap == <<>>
NoHeap == <<>>
NoProbe == <<>>

Inputs == SeqsUpTo(Symbols, MaxLen)

\* 80000: the bits of a chunk
ChunkBits == ChunkBytes * 8

Init ==
    /\ pc = "main"
    /\ input \in Inputs
    /\ nodeQueue = {}
    /\ pRoot = <<>>
    /\ path = <<>>
    /\ charMap = NoMap
    /\ dict = <<>>
    /\ outFile = <<>>
    /\ chunks = <<>>
    /\ compressedData = <<>>
    /\ stringStream = [pos |-> 0, fail |-> FALSE]
    /\ c = 0
    /\ newCharMap = NoMap
    /\ inFile = [pos |-> 0, fail |-> FALSE]
    /\ charHeap = NoHeap
    /\ key = <<>>
    /\ returnString = <<>>
    /\ pastEnd = 0
    /\ probe = NoProbe

\* main: a file of size 0 is turned away before anything is built
MainEmpty ==
    /\ pc = "main"
    /\ input = <<>>
    /\ pc' = "exit_empty"
    /\ UNCHANGED <<input, treeVars, charMap, writeVars, newCharMap, readVars>>

\* a plausible slip: main hands the input on without its test for an
\* empty file
PushLeavesUnchecked ==
    /\ pc = "main"
    /\ nodeQueue' = {LeafNode(ch, countChars(input)[ch]) : ch \in Range(input)}
    /\ pc' = "merge"
    /\ UNCHANGED <<input, pRoot, path, charMap, writeVars, newCharMap, readVars>>

\* main past its tests for an empty file, then HuffmanTree::HuffmanTree:
\* count and push one leaf per character
PushLeaves ==
    /\ pc = "main"
    /\ input # <<>>
    /\ nodeQueue' = {LeafNode(ch, countChars(input)[ch]) : ch \in Range(input)}
    /\ pc' = "merge"
    /\ UNCHANGED <<input, pRoot, path, charMap, writeVars, newCharMap, readVars>>

\* while (nodeQueue.size() > 1): pop two, push their branch
Merge ==
    /\ pc = "merge"
    /\ Cardinality(nodeQueue) > 1
    /\ \E l \in Tops(nodeQueue) :
         \E r \in Tops(nodeQueue \ {l}) :
            nodeQueue' = (nodeQueue \ {l, r}) \cup {BranchNode(l, r)}
    /\ UNCHANGED <<pc, input, pRoot, path, charMap, writeVars, newCharMap, readVars>>

\* pRoot = nodeQueue.top(), once the loop has left at most one node.  The
\* constructor does not test for an empty queue: top() on it is undefined
\* behaviour, after which the run is stopped.
SetRoot ==
    /\ pc = "merge"
    /\ Cardinality(nodeQueue) <= 1
    /\ IF nodeQueue = {}
       THEN /\ pRoot' = pRoot
            /\ pc' = "crash"
       ELSE /\ pRoot' \in Tops(nodeQueue)
            /\ pc' = "getKeys"
    /\ UNCHANGED <<input, nodeQueue, path, charMap, writeVars, newCharMap, readVars>>

\* HuffmanTree::getKeys; a root that is a leaf pops the empty path, after
\* which the run either goes on with the map or is stopped
GetKeys ==
    /\ pc = "getKeys"
    /\ LET r == NodeGetKeys(pRoot, path)
       IN  /\ path' = r.path
           /\ \/ /\ charMap' = r.map
                 /\ pc' = "haveKeys"
              \/ /\ r.path = Corrupt
                 /\ charMap' = charMap
                 /\ pc' = "crash"
    /\ UNCHANGED <<input, nodeQueue, pRoot, writeVars, newCharMap, readVars>>

(***************************************************************************)
(* src/src/main.cpp                                                        *)
(***************************************************************************)
\* std::vector<bool> dict = vectorDict(charMap)
VectorDict ==
    /\ pc = "haveKeys"
    /\ dict' = IF PathTooLong(charMap) THEN dict ELSE vectorDict(charMap)
    /\ pc' = IF PathTooLong(charMap) THEN "throw_path_length" ELSE "writeOutDict"
    /\ UNCHANGED <<input, treeVars, charMap, outFile, chunks, compressedData,
                   stringStream, c, newCharMap, readVars>>

\* writeOutDict(dict, outFile)
WriteOutDict ==
    /\ pc = "writeOutDict"
    /\ outFile' = outFile \o writeOutDict(dict)
    /\ pc' = "compress"
    /\ UNCHANGED <<input, treeVars, charMap, dict, chunks, compressedData,
                   stringStream, c, newCharMap, readVars>>

\* compress, up to its loop: eight 0 bits are pushed for the header
CompressBegin ==
    /\ pc = "compress"
    /\ compressedData' = Zeros(8)
    /\ stringStream' = [pos |-> 0, fail |-> FALSE]
    /\ pc' = "compressLoop"
    /\ UNCHANGED <<input, treeVars, charMap, dict, outFile, chunks, c,
                   newCharMap, readVars>>

\* compressedData[i] = (trailingBits >> (7 - i)) & 1 for i = 0..7
SetHeader(data, trailingBits) ==
    [i \in 1..Len(data) |-> IF i <= 8 THEN ByteBits(trailingBits % 256)[i]
                                      ELSE data[i]]

\* compress at stringStream.eof(): pad to a byte, count the padding in
\* the first eight bits
LastChunk(data) ==
    IF Len(data) % 8 # 0
    THEN SetHeader(data \o Zeros(8 - (Len(data) % 8)), 8 - (Len(data) % 8))
    ELSE data

\* compress when the chunk exceeds 80000 bits: pop the bits just pushed,
\* pad to 80000, count the padding in the first eight bits
FullChunk(data, p) ==
    LET popped == SubSeq(data, 1, Len(data) - Len(p))
    IN  SetHeader(popped \o Zeros(ChunkBits - Len(popped)),
                  ChunkBits - Len(popped))

\* one turn of while (true) with stringStream.eof(): the last writeOut
CompressEnd ==
    /\ pc = "compressLoop"
    /\ stringStream.fail
    /\ compressedData' = LastChunk(compressedData)
    /\ chunks' = Append(chunks, writeOut(compressedData'))
    /\ outFile' = outFile \o writeOut(compressedData')
    /\ pc' = "interpretDict"
    /\ UNCHANGED <<input, treeVars, charMap, dict, stringStream, c, newCharMap,
                   readVars>>

\* compress after the extraction: push the path of ch (charMap.at throws
\* for a char that has none), write the chunk out when it has grown past
\* 80000 bits and clear it
PushPath(ch) ==
    /\ c' = ch
    /\ IF ch \notin DOMAIN charMap
       THEN /\ pc' = "throw_out_of_range"
            /\ UNCHANGED <<compressedData, chunks, outFile>>
       ELSE LET data == compressedData \o charMap[ch]
            IN  IF Len(data) > ChunkBits
                THEN LET full == FullChunk(data, charMap[ch])
                     IN  /\ chunks' = Append(chunks, writeOut(full))
                         /\ outFile' = outFile \o writeOut(full)
                         /\ compressedData' = <<>>
                         /\ pc' = pc
                ELSE /\ compressedData' = data
                     /\ pc' = pc
                     /\ UNCHANGED <<chunks, outFile>>

\* one turn of while (true) otherwise: stringStream >> c took a char
CompressChar ==
    /\ pc = "compressLoop"
    /\ ~stringStream.fail
    /\ Extract(input, stringStream).ok
    /\ stringStream' = Extract(input, stringStream).st
    /\ PushPath(Extract(input, stringStream).ch)
    /\ UNCHANGED <<input, treeVars, charMap, dict, newCharMap, readVars>>

\* one turn of while (true) in which stringStream >> c reaches the end of
\* the input: the extraction fails and sets eof.  c is declared without
\* a value in the loop body, so it now holds an indeterminate char g,
\* and the turn goes on with it.
CompressPastEnd ==
    /\ pc = "compressLoop"
    /\ ~stringStream.fail
    /\ ~Extract(input, stringStream).ok
    /\ stringStream' = Extract(input, stringStream).st
    /\ \E g \in Stale(c) : PushPath(g)
    /\ UNCHANGED <<input, treeVars, charMap, dict, newCharMap, readVars>>

\* newCharMap = interpretDict(inFile) on the file just written
InterpretDict ==
    /\ pc = "interpretDict"
    /\ LET used == interpretDict(outFile, 0, 0).used
       IN  \E gBits \in (IF "bits" \in used THEN Indeterminate ELSE {0}) :
             \E gChar \in (IF "c" \in used THEN Indeterminate ELSE {0}) :
                newCharMap' = interpretDict(outFile, gBits, gChar).map
    /\ inFile' = interpretDict(outFile, 0, 0).st
    /\ pc' = "assert"
    /\ UNCHANGED <<input, treeVars, charMap, writeVars, charHeap, key,
                   returnString, pastEnd, probe>>

\* assert(newCharMap == charMap)
AssertEqual ==
    /\ pc = "assert"
    /\ pc' = IF newCharMap = charMap THEN "done" ELSE "assert_failed"
    /\ UNCHANGED <<input, treeVars, charMap, writeVars, newCharMap, readVars>>

(***************************************************************************)
(* src/unnamed/part_001: main                                              *)
(***************************************************************************)
\* writeDict(charMap, outFile)
WriteDict ==
    /\ pc = "haveKeys"
    /\ outFile' = outFile \o writeDict(charMap)
    /\ pc' = "compressText"
    /\ UNCHANGED <<input, treeVars, charMap, dict, chunks, compressedData,
                   stringStream, c, newCharMap, readVars>>

\* compress(input, charMap, outFile)
CompressText ==
    /\ pc = "compressText"
    /\ outFile' = outFile \o compressText(input, charMap)
    /\ pc' = "readDict"
    /\ UNCHANGED <<input, treeVars, charMap, dict, chunks, compressedData,
                   stringStream, c, newCharMap, readVars>>

\* newCharMap = readDict(inFile) on the file, from its first byte; what
\* readDict throws ends the run
ReadDict ==
    /\ pc = "readDict"
    /\ LET r == readDict(outFile)
       IN  /\ newCharMap' = r.map
           /\ inFile' = r.st
           /\ pc' = IF r.throw = "" THEN "assertSizes" ELSE r.throw
    /\ UNCHANGED <<input, treeVars, charMap, writeVars, charHeap, key,
                   returnString, pastEnd, probe>>

\* assert(pair.second.size() == newCharMap[pair.first].size()) for every
\* pair of charMap; newCharMap[...] inserts an empty path for a new key
AssertSizes ==
    /\ pc = "assertSizes"
    /\ newCharMap' = [ch \in DOMAIN charMap \cup DOMAIN newCharMap |->
                        IF ch \in DOMAIN newCharMap THEN newCharMap[ch]
                                                    ELSE <<>>]
    /\ pc' = IF \A ch \in DOMAIN charMap :
                    Len(charMap[ch]) = Len(newCharMap'[ch])
             THEN "interpreter" ELSE "assert_failed"
    /\ UNCHANGED <<input, treeVars, charMap, writeVars, readVars>>

\* the heap whose stores outside the array were lost: the chars there
\* hold g
Dropped(heap, g) ==
    [heap EXCEPT !.keys = [i \in DOMAIN heap.keys |->
                              IF i \in heap.outside THEN g ELSE heap.keys[i]]]

\* Interpreter interpreter(charMap).  For a store at or beyond size the
\* second CharHeap throws; the first writes outside the array, after
\* which the run is stopped, or goes on with the store kept or lost.
InterpreterNew ==
    /\ pc = "interpreter"
    /\ LET heap == CharHeap(switchedMap(charMap))
       IN  IF heap.outside = {}
           THEN /\ charHeap' = heap
                /\ pc' = "decompress"
           ELSE \E outcome \in {"throw", "crash", "kept", "lost"} :
                \E g \in (IF outcome = "lost"
                          THEN IndeterminateSlot \cup {heap.branchChar}
                          ELSE {0}) :
                  /\ charHeap' = IF outcome = "kept" THEN heap
                                 ELSE IF outcome = "lost" THEN Dropped(heap, g)
                                 ELSE charHeap
                  /\ pc' = IF outcome = "throw" THEN "Yo WTF Stack Smash"
                           ELSE IF outcome = "crash" THEN "crash"
                           ELSE "decompress"
    /\ UNCHANGED <<input, treeVars, charMap, writeVars, newCharMap, inFile,
                   key, returnString, pastEnd, probe>>

\* the keys getChar is asked for from outside
Ones(n) == [i \in 1..n |-> 1]
ProbeKeys == SeqsUpTo({0, 1}, MaxPath + 1)
                \cup {Ones(n) : n \in 0..(MaxDepth + 1)}

\* charHeap->getChar(k), or (*charHeap)[k], on the heap just built
GetCharProbe ==
    /\ pc = "decompress"
    /\ \E k \in ProbeKeys :
         \E r \in GetCharResults(charHeap, k) :
            probe' = [key |-> k, result |-> r]
    /\ UNCHANGED <<pc, input, treeVars, charMap, writeVars, newCharMap, inFile,
                   charHeap, key, returnString, pastEnd>>

\* end = in.tellg() after in.seekg(0, std::ios::end)
streamEnd == Len(outFile)

\* in.tellg(): -1 on a stream that has failed
tellg(st) == IF st.fail THEN -1 ELSE st.pos

\* what c may hold in decompress after an extraction that failed
IndeterminateChar == {48, 49, 255}

\* Interpreter::decompress, up to its loop
DecompressBegin ==
    /\ pc = "decompress"
    /\ key' = <<>>
    /\ returnString' = <<>>
    /\ pastEnd' = 0
    /\ pc' = "decompressLoop"
    /\ UNCHANGED <<input, treeVars, charMap, writeVars, newCharMap, inFile,
                   charHeap, probe>>

\* if (in.tellg() == end) break, after in >> c
DecompressBreaks(r) == tellg(r.st) = streamEnd

\* one turn of while (true) in Interpreter::decompress.  After a failed
\* extraction tellg() is -1, never end, and the turn goes on with an
\* indeterminate c; MaxPastEnd such turns are followed.
DecompressTurn ==
    /\ pc = "decompressLoop"
    /\ LET r == Extract(outFile, inFile)
       IN  /\ inFile' = r.st
           /\ r.ok \/ pastEnd < MaxPastEnd
           /\ pastEnd' = IF r.ok THEN pastEnd ELSE pastEnd + 1
           /\ IF DecompressBreaks(r)
              THEN /\ pc' = "done"
                   /\ UNCHANGED <<key, returnString>>
              ELSE \E g \in (IF r.ok THEN {r.ch} ELSE IndeterminateChar) :
                     IF g \notin {48, 49}
                     THEN /\ pc' = "Invalid character"
                          /\ UNCHANGED <<key, returnString>>
                     ELSE \E res \in GetCharResults(charHeap,
                                                   Append(key, g - 48)) :
                            /\ pc' = pc
                            /\ key' = IF res = Nullopt
                                      THEN Append(key, g - 48) ELSE <<>>
                            /\ returnString' =
                                   IF res = Nullopt THEN returnString
                                   ELSE Append(returnString, res[1])
    /\ UNCHANGED <<input, treeVars, charMap, writeVars, newCharMap, charHeap,
                   probe>>

Next ==
    \/ MainEmpty
    \/ PushLeaves
    \/ Merge
    \/ SetRoot
    \/ GetKeys
    \/ VectorDict
    \/ WriteOutDict
    \/ CompressBegin
    \/ CompressEnd
    \/ CompressChar
    \/ CompressPastEnd
    \/ InterpretDict
    \/ AssertEqual

Spec == Init /\ [][Next]_vars

\* the run up to the code table, which both drivers share
NextTree ==
    \/ MainEmpty
    \/ PushLeaves
    \/ Merge
    \/ SetRoot
    \/ GetKeys

SpecTree == Init /\ [][NextTree]_vars

\* HuffmanTree::getKeys called once more on the same tree: Node::getKeys
\* starts from the static path as the call before left it.  On a path
\* that was popped while empty the copy loop and push_back run on a
\* vector whose end lies before its start (undefined behaviour): the run
\* is stopped, or goes on with what comes out.
GetKeysAgain ==
    /\ pc = "haveKeys"
    /\ LET r == NodeGetKeys(pRoot, path)
       IN  \/ /\ path' = r.path
              /\ charMap' = r.map
              /\ pc' = "haveKeysAgain"
           \/ /\ path = Corrupt
              /\ UNCHANGED <<path, charMap>>
              /\ pc' = "crash"
    /\ UNCHANGED <<input, nodeQueue, pRoot, writeVars, newCharMap, readVars>>

\* the run up to the code table, and getKeys a second time
NextKeys ==
    \/ MainEmpty
    \/ PushLeaves
    \/ Merge
    \/ SetRoot
    \/ GetKeys
    \/ GetKeysAgain

SpecKeys == Init /\ [][NextKeys]_vars

\* the run of src/unnamed/part_001
NextOld ==
    \/ MainEmpty
    \/ PushLeaves
    \/ Merge
    \/ SetRoot
    \/ GetKeys
    \/ WriteDict
    \/ CompressText
    \/ ReadDict
    \/ AssertSizes
    \/ InterpreterNew
    \/ DecompressBegin
    \/ DecompressTurn

InitOld ==
    /\ pc = "main"
    /\ input \in SeqsUpTo(Symbols, MaxText)
    /\ nodeQueue = {}
    /\ pRoot = <<>>
    /\ path = <<>>
    /\ charMap = NoMap
    /\ dict = <<>>
    /\ outFile = <<>>
    /\ chunks = <<>>
    /\ compressedData = <<>>
    /\ stringStream = [pos |-> 0, fail |-> FALSE]
    /\ c = 0
    /\ newCharMap = NoMap
    /\ inFile = [pos |-> 0, fail |-> FALSE]
    /\ charHeap = NoHeap
    /\ key = <<>>
    /\ returnString = <<>>
    /\ pastEnd = 0
    /\ probe = NoProbe

SpecOld == InitOld /\ [][NextOld]_vars

\* the code tables that are drawn: every prefix-free assignment of short
\* paths, and of one path beyond the depth of the heap, to a few symbols
HeapSymbols == {0, 1, 2}
HeapPaths == SeqsUpTo({0, 1}, MaxPath) \cup {Ones(MaxDepth + 1)}
Tables ==
    {m \in UNION {[S -> HeapPaths] : S \in SUBSET HeapSymbols} :
        \A s1 \in DOMAIN m : \A s2 \in DOMAIN m \ {s1} :
            ~IsPrefix(m[s1], m[s2])}

\* a CharHeap built from a drawn table and asked for keys
InitHeap ==
    /\ pc = "interpreter"
    /\ input = <<>>
    /\ charMap \in Tables
    /\ nodeQueue = {}
    /\ pRoot = <<>>
    /\ path = <<>>
    /\ dict = <<>>
    /\ outFile = <<>>
    /\ chunks = <<>>
    /\ compressedData = <<>>
    /\ stringStream = [pos |-> 0, fail |-> FALSE]
    /\ c = 0
    /\ newCharMap = NoMap
    /\ inFile = [pos |-> 0, fail |-> FALSE]
    /\ charHeap = NoHeap
    /\ key = <<>>
    /\ returnString = <<>>
    /\ pastEnd = 0
    /\ probe = NoProbe

NextHeap ==
    \/ InterpreterNew
    \/ GetCharProbe

SpecHeap == InitHeap /\ [][NextHeap]_vars

\* the bodies that are drawn: '0', '1' and space
BodyChars == {48, 49, 32}
Bodies == SeqsUpTo(BodyChars, MaxBody)

\* Interpreter::decompress on a drawn body under a drawn table
InitDecode ==
    /\ pc = "interpreter"
    /\ input = <<>>
    /\ charMap \in Tables
    /\ nodeQueue = {}
    /\ pRoot = <<>>
    /\ path = <<>>
    /\ dict = <<>>
    /\ outFile \in Bodies
    /\ chunks = <<>>
    /\ compressedData = <<>>
    /\ stringStream = [pos |-> 0, fail |-> FALSE]
    /\ c = 0
    /\ newCharMap = NoMap
    /\ inFile = [pos |-> 0, fail |-> FALSE]
    /\ charHeap = NoHeap
    /\ key = <<>>
    /\ returnString = <<>>
    /\ pastEnd = 0
    /\ probe = NoProbe

NextDecode ==
    \/ InterpreterNew
    \/ DecompressBegin
    \/ DecompressTurn

SpecDecode == InitDecode /\ [][NextDecode]_vars

\* the dictionary streams that are drawn
StreamBytes == {0, 1, 2}
Streams == SeqsUpTo(StreamBytes, MaxStream)

\* a dictionary reader on a drawn stream
InitDict ==
    /\ pc \in {"interpretDict", "readDict"}
    /\ input = <<>>
    /\ charMap = NoMap
    /\ nodeQueue = {}
    /\ pRoot = <<>>
    /\ path = <<>>
    /\ dict = <<>>
    /\ outFile \in Streams
    /\ chunks = <<>>
    /\ compressedData = <<>>
    /\ stringStream = [pos |-> 0, fail |-> FALSE]
    /\ c = 0
    /\ newCharMap = NoMap
    /\ inFile = [pos |-> 0, fail |-> FALSE]
    /\ charHeap = NoHeap
    /\ key = <<>>
    /\ returnString = <<>>
    /\ pastEnd = 0
    /\ probe = NoProbe

NextDict ==
    \/ InterpretDict
    \/ ReadDict

SpecDict == InitDict /\ [][NextDict]_vars

\* how far beyond the 255 bits of a length byte a drawn path goes
MaxOver == 1

\* the paths of a tree that leans to the right: n - 1 right turns and a
\* left one, or n right turns for the last leaf
Comb(n) == Ones(n - 1) \o <<0>>
LongLengths == {1, 2} \cup (MaxPathLength..(MaxPathLength + MaxOver))
LongPaths == {Comb(n) : n \in LongLengths} \cup {Ones(n) : n \in LongLengths}

\* the code tables handed to a dictionary writer on its own
LongTables ==
    {m \in UNION {[S -> LongPaths] : S \in SUBSET HeapSymbols} :
        \A s1 \in DOMAIN m : \A s2 \in DOMAIN m \ {s1} :
            ~IsPrefix(m[s1], m[s2])}

\* a dictionary writer, vectorDict or writeDict, on a drawn table
InitEncode ==
    /\ pc = "haveKeys"
    /\ input = <<>>
    /\ charMap \in LongTables
    /\ nodeQueue = {}
    /\ pRoot = <<>>
    /\ path = <<>>
    /\ dict = <<>>
    /\ outFile = <<>>
    /\ chunks = <<>>
    /\ compressedData = <<>>
    /\ stringStream = [pos |-> 0, fail |-> FALSE]
    /\ c = 0
    /\ newCharMap = NoMap
    /\ inFile = [pos |-> 0, fail |-> FALSE]
    /\ charHeap = NoHeap
    /\ key = <<>>
    /\ returnString = <<>>
    /\ pastEnd = 0
    /\ probe = NoProbe

NextEncode ==
    \/ VectorDict
    \/ WriteDict

SpecEncode == InitEncode /\ [][NextEncode]_vars

\* the code tables handed to compress on its own: the paths of a tree of
\* four leaves that leans to the right, for every assignment of symbols
CompressSymbols == {0, 1, 2, 3}
CompressPaths == {Comb(1), Comb(2), Comb(3), Ones(3)}
CompressTables ==
    {m \in [CompressSymbols -> CompressPaths] :
        \A s1 \in CompressSymbols : \A s2 \in CompressSymbols \ {s1} :
            m[s1] # m[s2]}

\* compress on a drawn input under a drawn table
InitCompress ==
    /\ pc = "compress"
    /\ charMap \in CompressTables
    /\ input \in SeqsUpTo(CompressSymbols, MaxLen) \ {<<>>}
    /\ nodeQueue = {}
    /\ pRoot = <<>>
    /\ path = <<>>
    /\ dict = <<>>
    /\ outFile = <<>>
    /\ chunks = <<>>
    /\ compressedData = <<>>
    /\ stringStream = [pos |-> 0, fail |-> FALSE]
    /\ c = 0
    /\ newCharMap = NoMap
    /\ inFile = [pos |-> 0, fail |-> FALSE]
    /\ charHeap = NoHeap
    /\ key = <<>>
    /\ returnString = <<>>
    /\ pastEnd = 0
    /\ probe = NoProbe

NextCompress ==
    \/ CompressBegin
    \/ CompressChar
    \/ CompressPastEnd
    \/ CompressEnd

SpecCompress == InitCompress /\ [][NextCompress]_vars

(***************************************************************************)
(* Properties of the round trip                                            *)
(***************************************************************************)
\* where a run of src/unnamed/part_001 ends
OldEnds == {"done", "crash", "assert_failed", "Invalid character",
            "Yo WTF Stack Smash", "Unexpected EOF", "Duplicate character"}

\* C1: for every non-empty input, building the table, writing the body
\* with compress and decoding it with Interpreter::decompress under the
\* same table ends normally and yields exactly the input.
C1_RoundTrip ==
    (input # <<>> /\ pc \in OldEnds) => (pc = "done" /\ returnString = input)

\* C2: the table read back by interpretDict from the bytes vectorDict and
\* writeOutDict wrote equals the table that was written, for every table
\* whose paths are 1 to 255 bits long.
C2_DictRoundTrip ==
    (pc = "assert" /\ \A ch \in DOMAIN charMap : Len(charMap[ch]) >= 1)
        => newCharMap = charMap

(***************************************************************************)
(* Properties of the body and of the container                             *)
(***************************************************************************)
RECURSIVE BytesBits(_)
BytesBits(bytes) ==
    IF bytes = <<>> THEN <<>> ELSE ByteBits(bytes[1]) \o BytesBits(Tail(bytes))

\* a chunk without its header byte and without the trailing bits that
\* header declares
Payload(chunk) ==
    IF chunk = <<>> THEN <<>>
    ELSE LET bits == BytesBits(Tail(chunk))
         IN  IF chunk[1] >= Len(bits) THEN <<>>
             ELSE SubSeq(bits, 1, Len(bits) - chunk[1])

RECURSIVE Reassemble(_)
Reassemble(cs) ==
    IF cs = <<>> THEN <<>> ELSE Payload(cs[1]) \o Reassemble(Tail(cs))

\* the paths of the symbols of in, in order
RECURSIVE CodeSequence(_, _)
CodeSequence(in, m) ==
    IF in = <<>> THEN <<>> ELSE m[in[1]] \o CodeSequence(Tail(in), m)

\* C4: for an input whose code sequence spans several chunks, the chunks
\* written by compress, each without its header byte and its declared
\* trailing bits, concatenate to the paths of the input symbols in order.
C4_ChunkFraming ==
    (pc = "interpretDict"
        /\ Cardinality({i \in DOMAIN chunks : chunks[i] # <<>>}) >= 2)
        => Reassemble(chunks) = CodeSequence(input, charMap)

\* C7: in the file written by writeOutDict and compress the last entry of
\* the dictionary is followed by exactly one 0x00 byte, and the byte after
\* it is the header of the first chunk of the body.
C7_ContainerLayout ==
    pc = "interpretDict" =>
        outFile = writeOut(DictEntries(charMap, CharOrder(DOMAIN charMap)))
                      \o <<0>> \o Flatten(chunks)

(***************************************************************************)
(* Properties of CharHeap and of Interpreter::decompress                   *)
(***************************************************************************)
\* C5: for every prefix-free map the construction of the CharHeap
\* succeeds, getChar returns the symbol of every inserted path, and
\* getChar returns empty for a strict prefix of an inserted path.
C5_HeapCorrect ==
    /\ pc \notin {"Yo WTF Stack Smash", "crash"}
    /\ probe # NoProbe =>
         \A ch \in DOMAIN charMap :
            /\ probe.key = charMap[ch] => probe.result = Some(ch)
            /\ (IsPrefix(probe.key, charMap[ch]) /\ probe.key # charMap[ch])
                   => probe.result = Nullopt

\* C8: decompress does not return when the bits of the body end with a
\* non-empty key that never resolved to a symbol.
C8_TruncatedPayloadFails ==
    pc = "done" => key = <<>>

(***************************************************************************)
(* Properties of the dictionary readers                                    *)
(***************************************************************************)
\* C9: a dictionary reader whose stream ends before it has read a zero
\* path length does not return a table.
C9_TruncatedDictFails ==
    pc \in {"assert", "assertSizes"} => ~inFile.fail

NoRepeat(seq) == \A i \in DOMAIN seq : \A j \in DOMAIN seq :
                    seq[i] = seq[j] => i = j

\* the symbol bytes of the entries readDict walks over before it returns
RECURSIVE TextSymbols(_, _)
TextSymbols(in, pos) ==
    IF pos >= Len(in) \/ in[pos + 1] = 0 THEN <<>>
    ELSE IF pos + in[pos + 1] + 2 > Len(in) THEN <<>>
    ELSE <<in[pos + in[pos + 1] + 2]>>
            \o TextSymbols(in, pos + in[pos + 1] + 2)

\* C10: a dictionary reader does not return a table from a stream, whole
\* up to its zero path length, in which two entries have the same symbol.
C10_DuplicateFails ==
    /\ (pc = "assert" /\ ~inFile.fail)
           => NoRepeat(interpretDict(outFile, 0, 0).stored)
    /\ (pc = "assertSizes" /\ ~inFile.fail)
           => NoRepeat(TextSymbols(outFile, 0))

(***************************************************************************)
(* Properties of the code table                                            *)
(***************************************************************************)
\* how often a symbol occurs in the input
Occurrences(ch) == Cardinality({i \in DOMAIN input : input[i] = ch})

\* C3: for an input with at least two distinct symbols, no path of the
\* table returned by getKeys is a prefix of, or equal to, the path of a
\* different symbol.
C3_PrefixFree ==
    (charMap # NoMap /\ Cardinality(Range(input)) >= 2) =>
        \A s1 \in DOMAIN charMap : \A s2 \in DOMAIN charMap \ {s1} :
            ~IsPrefix(charMap[s1], charMap[s2])

\* a table of three or more symbols with paths of different lengths
C3_Witness ==
    /\ charMap # NoMap
    /\ Cardinality(DOMAIN charMap) >= 3
    /\ \E s1 \in DOMAIN charMap : \E s2 \in DOMAIN charMap :
            Len(charMap[s1]) < Len(charMap[s2])

\* C6: whenever s1 occurs strictly more often than s2 in the input, the
\* path of s1 is no longer than the path of s2.
C6_FrequencyMonotone ==
    charMap # NoMap =>
        \A s1 \in DOMAIN charMap : \A s2 \in DOMAIN charMap :
            Occurrences(s1) > Occurrences(s2) =>
                Len(charMap[s1]) <= Len(charMap[s2])

\* a table in which a more frequent symbol has the strictly shorter path
C6_Witness ==
    /\ charMap # NoMap
    /\ \E s1 \in DOMAIN charMap : \E s2 \in DOMAIN charMap :
            /\ Occurrences(s1) > Occurrences(s2)
            /\ Len(charMap[s1]) < Len(charMap[s2])

(***************************************************************************)
(* Properties of the dictionary writers                                    *)
(***************************************************************************)
\* C11: a dictionary writer handed a table with a path longer than 255
\* bits ends in an error; it does not write the dictionary, and so no
\* length byte that differs from the length of its path.
C11_PathTooLongFails ==
    /\ (PathTooLong(charMap) /\ pc # "haveKeys") => pc = "throw_path_length"
    /\ (pc = "compressText" /\ charMap # NoMap) =>
           outFile[1] = Len(charMap[CharOrder(DOMAIN charMap)[1]])

C13_SingleSymbolRoundTrip ==
    Cardinality(Range(input)) = 1 =>
        /\ charMap # NoMap => DOMAIN charMap = Range(input)
        /\ pc \in OldEnds => (pc = "done" /\ returnString = input)

(***************************************************************************)
(* Properties of the chunks of the body                                    *)
(***************************************************************************)
\* the chunks that were written with at least one byte
Written(cs) == {i \in DOMAIN cs : cs[i] # <<>>}

\* C14: in a body written by compress, the header byte of every chunk
\* other than the last one is 0.
C14_InnerHeadersZero ==
    pc = "interpretDict" =>
        \A i \in Written(chunks) :
            (\E j \in Written(chunks) : j > i) => chunks[i][1] = 0

\* C15: a turn of compress that takes a char from the input and flushes
\* the chunk because the path of that char went past the chunk size
\* leaves the char to be encoded in the next chunk: the new chunk begins,
\* after its header bits, with the path of that char, or the char has not
\* been consumed from the input.
C15_OverflowRestart ==
    [][(/\ pc = "compressLoop"
        /\ Extract(input, stringStream).ok
        /\ Len(chunks') = Len(chunks) + 1)
          => \/ compressedData' = Zeros(8) \o charMap[c']
             \/ stringStream' = stringStream]_vars

\* C16: whenever the chunk that compress is filling holds a bit, its
\* first eight bits are the 0 bits reserved for the header: no bit of a
\* path stands in the positions 0..7 of a chunk.
C16_HeaderReserved ==
    (pc = "compressLoop" /\ compressedData # <<>>)
        => IsPrefix(Zeros(8), compressedData)

\* C17: for an input whose paths fit in one chunk, the payload compress
\* writes is the path of the first byte of the input, then of the second,
\* and so on to the last: a path for every byte, whitespace included, and
\* no path twice.
C17_OneCodePerByte ==
    (pc = "interpretDict" /\ Len(chunks) = 1)
        => Payload(chunks[1]) = CodeSequence(input, charMap)

(***************************************************************************)
(* Properties of CharHeap on the tables of a tree                          *)
(***************************************************************************)
\* C18: for the table of a Huffman tree, the CharHeap constructor stores
\* every path of at most 13 bits at an index below the size of the array:
\* it does not throw for an index out of range and no store goes outside.
C18_IndexBelowSize ==
    /\ pc # "Yo WTF Stack Smash"
    /\ charHeap # NoHeap =>
           \A i \in DOMAIN charHeap.keys : i < charHeap.size

\* the symbols a table has entries for
Stored(m) == {SignedChar(ch) : ch \in DOMAIN m}

\* C19: the branchChar of a CharHeap is the smallest byte value that is
\* the symbol of no entry of its map, and so never a stored symbol.
C19_SentinelUnused ==
    charHeap # NoHeap =>
        /\ charHeap.branchChar \notin Stored(charMap)
        /\ \A b \in 0..(charHeap.branchChar - 1) : b \in Stored(charMap)

(***************************************************************************)
(* Properties of the loop of Interpreter::decompress                       *)
(***************************************************************************)
\* C20: the loop of decompress does not go into another turn once an
\* extraction has failed at the end of the stream: by then it has
\* returned or thrown.
C20_StopsAtEnd ==
    pc = "decompressLoop" => pastEnd = 0

\* the symbol sequences whose paths, written as chars, make up the body
Decoded(body, m) ==
    {s \in SeqsUpTo(DOMAIN m, Len(body)) :
        /\ s # <<>>
        /\ \A ch \in DOMAIN m : m[ch] # <<>>
        /\ BitChars(CodeSequence(s, m)) = body}

\* C21: when decompress returns from a body that is the paths of the
\* symbols s1..sn under its prefix-free table, one after the other, it
\* has used every bit of the body: it returns exactly s1..sn and no bit is
\* left in key.
C21_DecodesEveryBit ==
    pc = "done" =>
        \A s \in Decoded(outFile, charMap) :
            returnString = s /\ key = <<>>

(***************************************************************************)
(* Properties of the size and the independence of the chunks               *)
(***************************************************************************)
\* the bits a chunk lacks to a whole number of bytes
Padding(data) == (8 - (Len(data) % 8)) % 8

\* C22: at the start of every turn of compress the chunk being filled
\* holds at most 80000 bits; every chunk flushed before the end of the
\* input is exactly 10000 bytes; and the last chunk, written at the end of
\* the input, is at most 10000 whole bytes and its header byte is the
\* number of padding bits that were added to it.
C22_ChunkSize ==
    /\ [](pc = "compressLoop" =>
            /\ Len(compressedData) <= ChunkBits
            /\ \A i \in DOMAIN chunks : Len(chunks[i]) = ChunkBytes)
    /\ [][(pc = "compressLoop" /\ pc' = "interpretDict"
                /\ compressedData # <<>>)
              => /\ Len(chunks'[Len(chunks')]) <= ChunkBytes
                 /\ Len(chunks'[Len(chunks')]) * 8
                        = Len(compressedData) + Padding(compressedData)
                 /\ chunks'[Len(chunks')][1] = Padding(compressedData)]_vars

\* the bits are whole paths of the table, one after the other
RECURSIVE WholePaths(_, _)
WholePaths(bits, m) ==
    \/ bits = <<>>
    \/ \E ch \in DOMAIN m :
          /\ m[ch] # <<>>
          /\ IsPrefix(m[ch], bits)
          /\ WholePaths(SubSeq(bits, Len(m[ch]) + 1, Len(bits)), m)

\* C23: in a body written by compress, the payload of every chunk, which
\* is the chunk without its header byte and without the trailing bits the
\* header declares, is a sequence of whole paths: it can be decoded from
\* its first bit with the table alone.
C23_IndependentChunks ==
    pc = "interpretDict" =>
        \A i \in Written(chunks) : WholePaths(Payload(chunks[i]), charMap)

(***************************************************************************)
(* Properties of the static path of Node::getKeys                          *)
(***************************************************************************)
\* C24: whenever HuffmanTree::getKeys has returned, the static path is
\* empty, for every tree; so a second call on the tree returns, and
\* returns the table a first call returns.
C24_ScratchRestored ==
    /\ pc \in {"haveKeys", "haveKeysAgain"} => path = <<>>
    /\ pc = "haveKeysAgain" => charMap = NodeGetKeys(pRoot, <<>>).map
    /\ pc # "crash"

=============================================================================
